---- MODULE Spec2Model ----
(***************************************************************************)
(* Model of MemoryFlipGameSDL2.cpp: the board (puzzlePiecesAll, dstCoords),*)
(* the turn bookkeeping (flippedCount, flippedIndices, flipTimer) and the  *)
(* main loop (programState).  Vectors are 0-based functions, as in C++.    *)
(***************************************************************************)
EXTENDS Integers, Sequences, FiniteSets, TLC

(* ---- program constants ---- *)
puzzlePieceSize == 40
maxFlipped == 2
flipDelay == 40
xBoardOffset == 75
yBoardOffset == 40
betweenPiecesOffset == 5

(* ---- bounds of the model ---- *)
\* number of tiles (100 in the program), scaled down
puzzlePiecesTotal == 4
\* number of values the random 10-digit id string can take (9^10 in the program)
NumIds == 2

Idx == 0 .. (puzzlePiecesTotal - 1)
sizeHalf == puzzlePiecesTotal \div 2
IdVals == 1 .. NumIds
\* the empty std::string of a default-constructed piece
EmptyId == 0

VisStates == {"HIDDEN", "FLIPPED", "SOLVED"}

Rect(x, y, w, h) == [x |-> x, y |-> y, w |-> w, h |-> h]
ZeroRect == Rect(0, 0, 0, 0)

\* a value-initialised puzzlePiece
DefaultPiece == [srcRect |-> ZeroRect, visState |-> "HIDDEN", id |-> EmptyId]

\* (int) sqrt(n), n >= 0
ISqrt(n) == CHOOSE k \in 0 .. n : k * k <= n /\ (k + 1) * (k + 1) > n

\* the number of pieces a vector of pieces or rectangles holds
SizeOf(v) == Cardinality(DOMAIN v)

\* const int xRowLen = (sqrt(puzzlePiecesTotal) / 2) - 1;  (double truncated to int),
\* for a build with n pieces
SrcXRowLenOf(n) ==
    LET k == CHOOSE j \in 0 .. n : 4 * j * j <= n /\ 4 * (j + 1) * (j + 1) > n
    IN  IF k >= 1 THEN k - 1 ELSE 0
srcXRowLen == SrcXRowLenOf(puzzlePiecesTotal)

\* const int xRowLen = sqrt(puzzlePiecesTotal) - 1;  for a build with n pieces
DstXRowLenOf(n) == IF ISqrt(n) >= 1 THEN ISqrt(n) - 1 ELSE 0
dstXRowLen == DstXRowLenOf(puzzlePiecesTotal)

\* The offsets <<xOffset, yOffset, rowCount>> a layout loop holds when it
\* reaches element i, stepping by `step` and wrapping after xRowLen + 1 elements.
\* one pass of the loop body's if (rowCount >= xRowLen) ... else ...
LayoutStep(p, xRowLen, step) ==
    IF p[3] >= xRowLen
    THEN <<0, p[2] + step, 0>>
    ELSE <<p[1] + step, p[2], p[3] + 1>>
\* k passes of the loop from the offsets p (rowCount is never negative: the
\* test on it only makes every pass work out its offsets before the next one)
RECURSIVE LayoutFrom(_, _, _, _)
LayoutFrom(k, p, xRowLen, step) ==
    IF k = 0 \/ p[3] < 0 THEN p
    ELSE LayoutFrom(k - 1, LayoutStep(p, xRowLen, step), xRowLen, step)
LayoutAt(i, xRowLen, step) == LayoutFrom(i, <<0, 0, 0>>, xRowLen, step)

\* "Set src coords": srcRect of the first-half piece rectI, in a build with n pieces
SrcRectIn(n, rectI) ==
    LET p == LayoutAt(rectI, SrcXRowLenOf(n), puzzlePieceSize)
    IN  Rect(p[1], p[2], puzzlePieceSize, puzzlePieceSize)
SrcRectOf(rectI) == SrcRectIn(puzzlePiecesTotal, rectI)

\* "Set dst coords": the slot rectangle i, in a build with n pieces
\* (variant: the step between slots without betweenPiecesOffset)
DstRectInNoGap(n, i) ==
    LET p == LayoutAt(i, DstXRowLenOf(n), puzzlePieceSize)
    IN  Rect(p[1] + xBoardOffset, p[2] + yBoardOffset, puzzlePieceSize, puzzlePieceSize)
DstRectIn(n, i) ==
    LET p == LayoutAt(i, DstXRowLenOf(n), puzzlePieceSize + betweenPiecesOffset)
    IN  Rect(p[1] + xBoardOffset, p[2] + yBoardOffset, puzzlePieceSize, puzzlePieceSize)
DstRectOf(i) == DstRectIn(puzzlePiecesTotal, i)

\* the first loop of "Set src coords": pieces 0 .. sizeHalf-1 get srcRect and a random id
AssignFirstHalf(pieces, ids) ==
    [i \in DOMAIN pieces |->
        IF i < SizeOf(pieces) \div 2
        THEN [pieces[i] EXCEPT !.srcRect = SrcRectIn(SizeOf(pieces), i), !.id = ids[i]]
        ELSE pieces[i]]

\* std::copy(begin, begin + sizeHalf, begin + sizeHalf)
\* (variant: the copy has no effect)
CopyNothing(pieces) == pieces
CopyFirstHalf(pieces) ==
    LET half == SizeOf(pieces) \div 2
    IN  [i \in DOMAIN pieces |->
            IF i >= half /\ i < 2 * half THEN pieces[i - half] ELSE pieces[i]]

\* the permutations of the index set S
PermsOf(S) == {p \in [S -> S] : \A i, j \in S : p[i] = p[j] => i = j}
Perms == PermsOf(Idx)

\* shuffle(begin, end, engine): the sequence rearranged by the permutation p
\* (variant: every element drawn independently, the first one never moved away)
ShuffleWithRepeats(pieces, p) ==
    [i \in DOMAIN pieces |-> pieces[IF p[i] = 0 THEN 0 ELSE p[i] - 1]]
ShuffleBy(pieces, p) == [i \in DOMAIN pieces |-> pieces[p[i]]]

mouseWithinRectBound(btn, rect) ==
    /\ btn.x >= rect.x
    /\ btn.x <= rect.x + rect.w
    /\ btn.y >= rect.y
    /\ btn.y <= rect.y + rect.h

\* (variant of puzzleSolved: true as soon as one piece is SOLVED)
puzzleSolvedAny(pieces) == \E i \in DOMAIN pieces : pieces[i].visState = "SOLVED"
puzzleSolved(pieces) == \A i \in DOMAIN pieces : pieces[i].visState = "SOLVED"

(* ---- events SDL_PollEvent can hand to eventPoll ---- *)
\* SDL_PollEvent leaves sdlEvent unwritten when the queue is empty, and the
\* switch then reads an indeterminate type: such a frame behaves as a frame
\* with any one of the events below.
Ev(type, button, x, y) == [type |-> type, button |-> button, x |-> x, y |-> y]
NotPolled == Ev("NOTPOLLED", "NONE", 0, 0)
\* the points clicked: outside the board, the top-left corner of every slot, the
\* bottom-right corner of the last slot, and a point of the gap right of slot 0
ClickPoints ==
    {<<0, 0>>}
    \cup {<<DstRectOf(i).x, DstRectOf(i).y>> : i \in Idx}
    \cup {<<DstRectOf(puzzlePiecesTotal - 1).x + puzzlePieceSize,
            DstRectOf(puzzlePiecesTotal - 1).y + puzzlePieceSize>>}
    \cup {<<DstRectOf(0).x + puzzlePieceSize + 1, DstRectOf(0).y>>}
Events ==
    {Ev("OTHER", "NONE", 0, 0), Ev("SDL_QUIT", "NONE", 0, 0)}
    \cup {Ev("SDL_MOUSEBUTTONDOWN", "SDL_BUTTON_LEFT", p[1], p[2]) : p \in ClickPoints}
    \cup {Ev("SDL_MOUSEBUTTONDOWN", "SDL_BUTTON_RIGHT", p[1], p[2]) : p \in {<<DstRectOf(0).x, DstRectOf(0).y>>}}

VARIABLES pc, programState, puzzlePiecesAll, dstCoords,
          flippedCount, flippedIndices, flipTimer, sdlEvent, screen

vars == <<pc, programState, puzzlePiecesAll, dstCoords,
          flippedCount, flippedIndices, flipTimer, sdlEvent, screen>>

\* the globals as initialised in a build whose puzzlePiecesTotal is n
InitOf(n) ==
    /\ pc = "setCoords"
    /\ programState = "STARTUP"
    /\ puzzlePiecesAll = [i \in 0 .. (n - 1) |-> DefaultPiece]
    /\ dstCoords = [i \in 0 .. (n - 1) |-> ZeroRect]
    /\ flippedCount = 0
    /\ flippedIndices = [k \in 0 .. 1 |-> 0]
    /\ flipTimer = 0
    /\ sdlEvent = NotPolled
    /\ screen = [i \in 0 .. (n - 1) |-> <<>>]

Init == InitOf(puzzlePiecesTotal)

\* programStartup up to the call of shufflePuzzlePieces: "Set src coords" and "Set dst coords"
SetCoords ==
    /\ pc = "setCoords"
    /\ programState = "STARTUP"
    /\ \E ids \in [0 .. ((SizeOf(puzzlePiecesAll) \div 2) - 1) -> IdVals] :
           puzzlePiecesAll' = CopyFirstHalf(AssignFirstHalf(puzzlePiecesAll, ids))
    /\ dstCoords' = [i \in DOMAIN dstCoords |-> DstRectIn(SizeOf(dstCoords), i)]
    /\ pc' = "shuffle"
    /\ UNCHANGED <<programState, flippedCount, flippedIndices, flipTimer, sdlEvent, screen>>

\* shufflePuzzlePieces, the last statement of programStartup; main then enters PLAY
\* (variant: main enters PLAY only for an even count that is a square)
shufflePuzzlePiecesChecked ==
    /\ pc = "shuffle"
    /\ \E p \in PermsOf(DOMAIN puzzlePiecesAll) :
           puzzlePiecesAll' = ShuffleBy(puzzlePiecesAll, p)
    /\ programState' = IF SizeOf(puzzlePiecesAll) % 2 = 0
                           /\ ISqrt(SizeOf(puzzlePiecesAll)) * ISqrt(SizeOf(puzzlePiecesAll))
                                  = SizeOf(puzzlePiecesAll)
                       THEN "PLAY" ELSE "SHUTDOWN"
    /\ pc' = "loop"
    /\ UNCHANGED <<dstCoords, flippedCount, flippedIndices, flipTimer, sdlEvent, screen>>
shufflePuzzlePieces ==
    /\ pc = "shuffle"
    /\ \E p \in PermsOf(DOMAIN puzzlePiecesAll) :
           puzzlePiecesAll' = ShuffleBy(puzzlePiecesAll, p)
    /\ programState' = "PLAY"
    /\ pc' = "loop"
    /\ UNCHANGED <<dstCoords, flippedCount, flippedIndices, flipTimer, sdlEvent, screen>>

(* ---- eventPoll, written as the successive values of the globals ---- *)
\* puzzlePiecesAll[i].visState == puzzlePiece::VisState::HIDDEN
\* (variants: the test written as "not FLIPPED"; as "not SOLVED")
IsHiddenOrSolved(piece) == piece.visState # "FLIPPED"
IsNotSolved(piece) == piece.visState # "SOLVED"
IsHidden(piece) == piece.visState = "HIDDEN"

\* the slot the mouse-button loop stops at: the first i whose rectangle holds
\* the point and whose piece is HIDDEN (-1 when the loop runs to its end)
HitIndex(e, pieces, dst) ==
    LET hits == {i \in DOMAIN pieces :
                     mouseWithinRectBound(e, dst[i]) /\ IsHidden(pieces[i])}
    IN  IF hits = {} THEN -1 ELSE CHOOSE i \in hits : \A j \in hits : i <= j

\* if (flippedCount < maxFlipped)
\* (variants: the test left out; the test written with <=)
CanFlipAlways(count) == TRUE
CanFlipOffByOne(count) == count <= maxFlipped
CanFlip(count) == count < maxFlipped

\* the globals after the switch on sdlEvent.type
AfterSwitch(e, g) ==
    IF e.type = "SDL_QUIT" THEN [g EXCEPT !.programState = "SHUTDOWN"]
    ELSE IF e.type = "SDL_MOUSEBUTTONDOWN" /\ e.button = "SDL_BUTTON_LEFT"
    THEN LET i == HitIndex(e, g.pieces, g.dst)
         IN  IF i # -1 /\ CanFlip(g.flippedCount)
             THEN [g EXCEPT !.flippedIndices =
                               IF g.flippedCount = 0 THEN [@ EXCEPT ![0] = i]
                               ELSE IF g.flippedCount = 1 THEN [@ EXCEPT ![1] = i]
                               ELSE @,
                            !.pieces = [@ EXCEPT ![i].visState = "FLIPPED"],
                            !.flippedCount = @ + 1]
             ELSE g
    ELSE g

\* puzzlePiecesAll[flippedIndices[0]].id == puzzlePiecesAll[flippedIndices[1]].id
\* (variant: the comparison inverted)
IdsEqualInverted(p, q) == p.id # q.id
IdsEqual(p, q) == p.id = q.id

\* the resolution branch: flipTimer has exceeded the delay
\* (variant: flipTimer is not set back to 0)
ResolveKeepsTimer(g) ==
    LET a == g.flippedIndices[0]
        b == g.flippedIndices[1]
        match == IdsEqual(g.pieces[a], g.pieces[b])
        to == IF match THEN "SOLVED" ELSE "HIDDEN"
        ps == [[g.pieces EXCEPT ![a].visState = to] EXCEPT ![b].visState = to]
    IN  [g EXCEPT !.pieces = ps,
                  !.programState = IF match /\ puzzleSolved(ps) THEN "TRANSITION" ELSE @,
                  !.flippedCount = 0]
Resolve(g) ==
    LET a == g.flippedIndices[0]
        b == g.flippedIndices[1]
        match == IdsEqual(g.pieces[a], g.pieces[b])
        to == IF match THEN "SOLVED" ELSE "HIDDEN"
        ps == [[g.pieces EXCEPT ![a].visState = to] EXCEPT ![b].visState = to]
    IN  [g EXCEPT !.pieces = ps,
                  !.programState = IF match /\ puzzleSolved(ps) THEN "TRANSITION" ELSE @,
                  !.flippedCount = 0,
                  !.flipTimer = 0]

\* if (flipTimer > 40)
\* (variant: the test written with >=)
DelayOverOffByOne(timer) == timer >= flipDelay
DelayOver(timer) == timer > flipDelay

\* the globals after the timer step that follows the switch
AfterTimer(g) ==
    IF g.flippedCount >= maxFlipped
    THEN LET t == [g EXCEPT !.flipTimer = @ + 1]
         IN  IF DelayOver(t.flipTimer) THEN Resolve(t) ELSE t
    ELSE g

Globals ==
    [programState |-> programState, pieces |-> puzzlePiecesAll, dst |-> dstCoords,
     flippedCount |-> flippedCount, flippedIndices |-> flippedIndices, flipTimer |-> flipTimer]

eventPollResult(e) == AfterTimer(AfterSwitch(e, Globals))

\* what renderUpdate draws at slot rectI, in drawing order
\* (variant: the second branch a plain else, so SOLVED is drawn as FLIPPED is)
DrawOpsElse(piece, dstRect) ==
    IF piece.visState = "HIDDEN"
    THEN << [tex |-> "pieceHiddenTex", src |-> "NULL", dst |-> dstRect] >>
    ELSE << [tex |-> "puzzleTextures0", src |-> piece.srcRect, dst |-> dstRect],
            [tex |-> "flippedOutlineTex", src |-> "NULL", dst |-> dstRect] >>
DrawOps(piece, dstRect) ==
    IF piece.visState = "HIDDEN"
    THEN << [tex |-> "pieceHiddenTex", src |-> "NULL", dst |-> dstRect] >>
    ELSE IF piece.visState = "FLIPPED"
    THEN << [tex |-> "puzzleTextures0", src |-> piece.srcRect, dst |-> dstRect],
            [tex |-> "flippedOutlineTex", src |-> "NULL", dst |-> dstRect] >>
    ELSE << >>

renderUpdate(pieces, dst) ==
    [rectI \in DOMAIN pieces |-> DrawOps(pieces[rectI], dst[rectI])]

\* what eventPoll with the polled event e, and renderUpdate after it, leave behind
FrameEffect(e) ==
    /\ \E g \in {eventPollResult(e)} :
           /\ programState' = g.programState
           /\ puzzlePiecesAll' = g.pieces
           /\ flippedCount' = g.flippedCount
           /\ flippedIndices' = g.flippedIndices
           /\ flipTimer' = g.flipTimer
           /\ screen' = renderUpdate(g.pieces, dstCoords)
    /\ sdlEvent' = e
    /\ UNCHANGED dstCoords

\* one iteration of main's loop in PLAY: eventPoll then renderUpdate
PlayFrame(e) ==
    /\ pc = "loop"
    /\ programState = "PLAY"
    /\ FrameEffect(e)
    /\ UNCHANGED pc

\* one iteration of main's loop in TRANSITION: the case does nothing
\* (variant: the case polls events and acts on a quit)
TransitionFramePolls ==
    /\ pc = "loop"
    /\ programState = "TRANSITION"
    /\ \E e \in Events :
           /\ sdlEvent' = e
           /\ programState' = IF e.type = "SDL_QUIT" THEN "SHUTDOWN" ELSE programState
    /\ UNCHANGED <<pc, puzzlePiecesAll, dstCoords, flippedCount, flippedIndices,
                   flipTimer, screen>>
TransitionFrame ==
    /\ pc = "loop"
    /\ programState = "TRANSITION"
    /\ UNCHANGED vars

\* the loop condition fails: programShutdown and return
programShutdown ==
    /\ pc = "loop"
    /\ programState = "SHUTDOWN"
    /\ pc' = "exit"
    /\ UNCHANGED <<programState, puzzlePiecesAll, dstCoords, flippedCount,
                   flippedIndices, flipTimer, sdlEvent, screen>>

Next ==
    \/ SetCoords
    \/ shufflePuzzlePieces
    \/ \E e \in Events : PlayFrame(e)
    \/ TransitionFrame
    \/ programShutdown

Spec == Init /\ [][Next]_vars

(* ---- startup alone, for builds with any number of pieces ---- *)
\* the largest puzzlePiecesTotal tried
MaxTotal == 5
InitAnyTotal == \E n \in 1 .. MaxTotal : InitOf(n)
NextSetup ==
    \/ SetCoords
    \/ shufflePuzzlePieces
SpecSetup == InitAnyTotal /\ [][NextSetup]_vars

(* ---- the first click on the board of the shipped build ---- *)
\* const int puzzlePiecesTotal = 100;
shippedPiecesTotal == 100
\* how far around the board the clicked points reach, in pixels
ClickMargin == 3
\* the clicked points: the board (from the first slot's left and top edges to
\* the last slot's right and bottom edges) and ClickMargin pixels around it,
\* all of them inside the 600 x 600 window
ClickXs ==
    (xBoardOffset - ClickMargin) ..
        (DstRectIn(shippedPiecesTotal, shippedPiecesTotal - 1).x + puzzlePieceSize + ClickMargin)
ClickYs ==
    (yBoardOffset - ClickMargin) ..
        (DstRectIn(shippedPiecesTotal, shippedPiecesTotal - 1).y + puzzlePieceSize + ClickMargin)
\* The first eventPoll call of the shipped build, stopped between
\* SDL_PollEvent and the switch: the board is as programStartup left it (100
\* pieces in 50 pairs with 50 different ids, left in place by the shuffle,
\* and the 100 slots) and sdlEvent holds a left click at a point on or around the board.
InitShipped ==
    /\ pc = "polled"
    /\ programState = "PLAY"
    /\ puzzlePiecesAll =
           CopyFirstHalf(AssignFirstHalf([i \in 0 .. (shippedPiecesTotal - 1) |-> DefaultPiece],
                                         [i \in 0 .. ((shippedPiecesTotal \div 2) - 1) |-> i + 1]))
    /\ dstCoords = [i \in 0 .. (shippedPiecesTotal - 1) |-> DstRectIn(shippedPiecesTotal, i)]
    /\ flippedCount = 0
    /\ flippedIndices = [k \in 0 .. 1 |-> 0]
    /\ flipTimer = 0
    /\ \E x \in ClickXs, y \in ClickYs :
           sdlEvent = Ev("SDL_MOUSEBUTTONDOWN", "SDL_BUTTON_LEFT", x, y)
    /\ screen = [i \in 0 .. (shippedPiecesTotal - 1) |-> <<>>]
\* the rest of that eventPoll call, and renderUpdate
HandlePolled ==
    /\ pc = "polled"
    /\ programState = "PLAY"
    /\ FrameEffect(sdlEvent)
    /\ pc' = "loop"
NextShipped == HandlePolled
SpecShipped == InitShipped /\ [][NextShipped]_vars

(***************************************************************************)
(* Properties                                                              *)
(***************************************************************************)
\* a frame boundary after startup: main is at the top of its loop, or has left it
AfterStartup == pc \in {"loop", "exit"}
FlippedTiles == {i \in Idx : puzzlePiecesAll[i].visState = "FLIPPED"}
SolvedTiles == {i \in Idx : puzzlePiecesAll[i].visState = "SOLVED"}
HiddenTiles == {i \in Idx : puzzlePiecesAll[i].visState = "HIDDEN"}
IsLeftClick(e) == e.type = "SDL_MOUSEBUTTONDOWN" /\ e.button = "SDL_BUTTON_LEFT"
\* the slots whose rectangle holds the point of event e
SlotsAt(e) == {i \in DOMAIN dstCoords : mouseWithinRectBound(e, dstCoords[i])}
\* the step taken is a PLAY frame (eventPoll and renderUpdate have run)
IsPlayFrame == pc = "loop" /\ programState = "PLAY" /\ pc' = "loop"
\* in this frame the timer step performs resolution: two tiles are pending
\* and the increment takes flipTimer past the delay
ResolutionDue == flippedCount >= maxFlipped /\ flipTimer + 1 > flipDelay

\* C1: at every frame boundary after startup at most two tiles are FLIPPED.
C1_AtMostTwoFlipped == AfterStartup => Cardinality(FlippedTiles) \in {0, 1, 2}

\* a frame in which two tiles were already pending polled a left click on a slot
\* whose tile is HIDDEN, and the tile is HIDDEN still
C1_Witness ==
    /\ Cardinality(FlippedTiles) = 2
    /\ flipTimer >= 2
    /\ IsLeftClick(sdlEvent)
    /\ \E i \in SlotsAt(sdlEvent) : i \in HiddenTiles

\* C2: the frame that performs resolution compares the ids of the two pending
\* tiles: equal ids make both SOLVED, different ids make both HIDDEN; either
\* way flippedCount and flipTimer are 0 afterwards and no other tile changes.
C2_Resolution ==
    [][(IsPlayFrame /\ ResolutionDue) =>
          LET a == flippedIndices[0]
              b == flippedIndices[1]
              to == IF puzzlePiecesAll[a].id = puzzlePiecesAll[b].id THEN "SOLVED" ELSE "HIDDEN"
          IN  /\ puzzlePiecesAll'[a].visState = to
              /\ puzzlePiecesAll'[b].visState = to
              /\ flippedCount' = 0
              /\ flipTimer' = 0
              /\ \A i \in Idx \ {a, b} :
                     puzzlePiecesAll'[i].visState = puzzlePiecesAll[i].visState]_vars

\* resolution of two pending tiles with different ids has put both back to HIDDEN
C2_Witness ==
    /\ AfterStartup
    /\ flippedCount = 0
    /\ flipTimer = 0
    /\ flippedIndices[0] # flippedIndices[1]
    /\ puzzlePiecesAll[flippedIndices[0]].id # puzzlePiecesAll[flippedIndices[1]].id
    /\ puzzlePiecesAll[flippedIndices[0]].visState = "HIDDEN"
    /\ puzzlePiecesAll[flippedIndices[1]].visState = "HIDDEN"

\* C3: at every frame boundary after startup the program is in TRANSITION
\* exactly when every tile is SOLVED; after a matching resolution that leaves
\* a tile unsolved the program is still in PLAY (SHUTDOWN if the frame polled
\* a quit).
C3_WinExact ==
    AfterStartup =>
        /\ programState = "TRANSITION" <=> SolvedTiles = Idx
        /\ (SolvedTiles # {} /\ SolvedTiles # Idx /\ sdlEvent.type # "SDL_QUIT")
               => programState = "PLAY"

\* the last pair has been solved and the program is in TRANSITION
C3_Witness ==
    /\ programState = "TRANSITION"
    /\ SolvedTiles = Idx
    /\ flippedCount = 0
\* the ids carried by the tiles, and the tiles carrying id x
IdsOnBoard == {puzzlePiecesAll[i].id : i \in Idx}
TilesWithId(x) == {i \in Idx : puzzlePiecesAll[i].id = x}

\* C4: after programStartup the tiles carry exactly puzzlePiecesTotal / 2
\* distinct identities and every identity is carried by exactly two tiles.
C4_EveryIdTwice ==
    AfterStartup =>
        /\ Cardinality(IdsOnBoard) = sizeHalf
        /\ \A x \in IdsOnBoard : Cardinality(TilesWithId(x)) = 2

\* the non-HIDDEN slots the point of event e lies in, before the frame
ShownSlotsAt(e) == {i \in SlotsAt(e) : puzzlePiecesAll[i].visState \in {"FLIPPED", "SOLVED"}}
VisStateOf(pieces) == [i \in Idx |-> pieces[i].visState]

\* C5: a frame that polls a left click on a slot whose tile is FLIPPED or SOLVED
\* ends as the timer step alone would end it; when no resolution is due in that
\* frame, every visState, flippedCount and flippedIndices are unchanged.
C5_ClickOnShownTile ==
    [][(IsPlayFrame /\ IsLeftClick(sdlEvent') /\ ShownSlotsAt(sdlEvent') # {}) =>
          /\ flippedIndices' = flippedIndices
          /\ ~ResolutionDue =>
                 /\ VisStateOf(puzzlePiecesAll') = VisStateOf(puzzlePiecesAll)
                 /\ flippedCount' = flippedCount
          /\ ResolutionDue =>
                 /\ flippedCount' = 0
                 /\ \A i \in Idx \ {flippedIndices[0], flippedIndices[1]} :
                        puzzlePiecesAll'[i].visState = puzzlePiecesAll[i].visState
                 /\ \A k \in 0 .. 1 : puzzlePiecesAll'[flippedIndices[k]].visState # "FLIPPED"]_vars

\* one tile is pending, and the frame just run polled a left click on the
\* slot of a SOLVED tile: exactly one tile is FLIPPED
C5_Witness ==
    /\ flippedCount = 1
    /\ Cardinality(FlippedTiles) = 1
    /\ IsLeftClick(sdlEvent)
    /\ \E i \in SlotsAt(sdlEvent) : i \in SolvedTiles

\* C6: in a frame that starts with two tiles pending, a left click on any slot
\* flips no tile and leaves flippedIndices unchanged; flippedCount stays 2, or
\* is 0 when the timer step of that same frame resolves the pair.
C6_NoThirdFlip ==
    [][(IsPlayFrame /\ flippedCount = maxFlipped /\ IsLeftClick(sdlEvent')) =>
          /\ \A i \in Idx : puzzlePiecesAll'[i].visState = "FLIPPED"
                                => puzzlePiecesAll[i].visState = "FLIPPED"
          /\ flippedIndices' = flippedIndices
          /\ flippedCount' = IF ResolutionDue THEN 0 ELSE flippedCount
          /\ ~ResolutionDue => VisStateOf(puzzlePiecesAll') = VisStateOf(puzzlePiecesAll)]_vars

\* the frame that resolved the pair polled a left click on the slot of a tile
\* that was HIDDEN, and that tile is HIDDEN still
C6_Witness ==
    /\ AfterStartup
    /\ flippedCount = 0
    /\ flippedIndices[0] # flippedIndices[1]
    /\ IsLeftClick(sdlEvent)
    /\ \E i \in SlotsAt(sdlEvent) :
           /\ i \notin {flippedIndices[0], flippedIndices[1]}
           /\ i \in HiddenTiles

\* C7: a tile that is SOLVED is SOLVED after every step.
C7_SolvedIsTerminal ==
    [][\A i \in Idx : puzzlePiecesAll[i].visState = "SOLVED"
                          => puzzlePiecesAll'[i].visState = "SOLVED"]_vars

\* two tiles are pending beside a SOLVED tile whose slot the last frame's click hit
C7_Witness ==
    /\ flippedCount = 2
    /\ IsLeftClick(sdlEvent)
    /\ \E i \in SlotsAt(sdlEvent) : i \in SolvedTiles

\* C8: at every frame boundary after startup the tiles of one identity are
\* all SOLVED or none of them is.
C8_PairSolvedTogether ==
    AfterStartup =>
        \A i, j \in Idx :
            puzzlePiecesAll[i].id = puzzlePiecesAll[j].id
                => (i \in SolvedTiles <=> j \in SolvedTiles)
\* how many elements of the piece sequence equal v
CountOf(pieces, v) == Cardinality({i \in DOMAIN pieces : pieces[i] = v})
\* slot i comes before slot j reading left to right, top to bottom
GridBefore(r, q) == r.y < q.y \/ (r.y = q.y /\ r.x < q.x)

Rendered == AfterStartup /\ sdlEvent # NotPolled
HiddenDraw(i) == << [tex |-> "pieceHiddenTex", src |-> "NULL", dst |-> dstCoords[i]] >>
FaceUpDraw(i) ==
    << [tex |-> "puzzleTextures0", src |-> puzzlePiecesAll[i].srcRect, dst |-> dstCoords[i]],
       [tex |-> "flippedOutlineTex", src |-> "NULL", dst |-> dstCoords[i]] >>

C11_ResolutionAfterDelay ==
    [][IsPlayFrame =>
          /\ (flippedCount = 1 /\ flippedCount' = 2) => flipTimer' = 1
          /\ (flippedCount = 2 /\ flipTimer < flipDelay) =>
                 /\ flipTimer' = flipTimer + 1
                 /\ flippedCount' = 2
                 /\ VisStateOf(puzzlePiecesAll') = VisStateOf(puzzlePiecesAll)
                 /\ \A k \in 0 .. 1 : puzzlePiecesAll'[flippedIndices[k]].visState = "FLIPPED"
          /\ (flippedCount = 2 /\ flipTimer = flipDelay) =>
                 /\ flippedCount' = 0
                 /\ \A k \in 0 .. 1 : puzzlePiecesAll'[flippedIndices[k]].visState # "FLIPPED"
          /\ (flippedCount = 2 /\ flippedCount' = 0) => flipTimer = flipDelay
          /\ flippedCount < 2 => flippedCount' # 0 \/ flippedCount = 0]_vars

\* the last frame before resolution: flipTimer is 40, both pending tiles are
\* FLIPPED, and the frame polled a left click on the slot of a HIDDEN tile
C11_Witness ==
    /\ flippedCount = 2
    /\ flipTimer = flipDelay
    /\ \A k \in 0 .. 1 : puzzlePiecesAll[flippedIndices[k]].visState = "FLIPPED"
    /\ IsLeftClick(sdlEvent)
    /\ \E i \in SlotsAt(sdlEvent) : i \in HiddenTiles

\* the srcRect the first loop of "Set src coords" gives piece i: rows of
\* srcXRowLen + 1 regions, puzzlePieceSize apart
GridSrcRect(i) ==
    Rect(puzzlePieceSize * (i % (srcXRowLen + 1)), puzzlePieceSize * (i \div (srcXRowLen + 1)),
         puzzlePieceSize, puzzlePieceSize)

\* C12: when shufflePuzzlePieces is about to be called, every piece of the
\* second half has the id and the srcRect of the piece sizeHalf places before
\* it, and every first-half piece has a generated id and its own srcRect.
C12_SecondHalfDuplicatesFirst ==
    pc = "shuffle" =>
        \A i \in 0 .. (sizeHalf - 1) :
            /\ puzzlePiecesAll[i + sizeHalf].id = puzzlePiecesAll[i].id
            /\ puzzlePiecesAll[i + sizeHalf].srcRect = puzzlePiecesAll[i].srcRect
            /\ puzzlePiecesAll[i].id \in IdVals
            /\ puzzlePiecesAll[i].srcRect = GridSrcRect(i)

\* before the shuffle: two different ids, each on a first-half piece and on its copy
C12_Witness ==
    /\ pc = "shuffle"
    /\ puzzlePiecesAll[0].id # puzzlePiecesAll[1].id
    /\ puzzlePiecesAll[sizeHalf].id = puzzlePiecesAll[0].id
    /\ puzzlePiecesAll[sizeHalf].srcRect = GridSrcRect(0)
\* a tile count that is even and fills a square grid
ValidTotal(n) == n % 2 = 0 /\ \E k \in 1 .. n : k * k = n

C14_QuitEndsProgram ==
    (AfterStartup /\ sdlEvent.type = "SDL_QUIT") => programState = "SHUTDOWN"

\* C15: from a state with programState = TRANSITION no step changes anything:
\* no event is polled, tiles, counters and programState stay as they are, and
\* main neither reaches SHUTDOWN nor leaves its loop.
C15_TransitionAbsorbs ==
    [][programState = "TRANSITION" =>
          /\ programState' = "TRANSITION"
          /\ pc' = "loop"
          /\ sdlEvent' = sdlEvent
          /\ puzzlePiecesAll' = puzzlePiecesAll
          /\ <<flippedCount, flippedIndices, flipTimer>>' = <<flippedCount, flippedIndices, flipTimer>>]_vars

\* the program is in TRANSITION although the frame that solved the last pair polled a quit
C15_Witness ==
    /\ pc = "loop"
    /\ programState = "TRANSITION"
    /\ sdlEvent.type = "SDL_QUIT"
    /\ SolvedTiles = Idx

\* C16: after a resolution the two tiles it compared are SOLVED exactly when
\* their srcRects are equal.
C16_MatchAgreesWithPicture ==
    (AfterStartup /\ flippedCount = 0 /\ flippedIndices[0] # flippedIndices[1]) =>
        LET a == flippedIndices[0]
            b == flippedIndices[1]
        IN  ({a, b} \subseteq SolvedTiles)
                <=> puzzlePiecesAll[a].srcRect = puzzlePiecesAll[b].srcRect

\* C17: whenever two tiles are pending, the two recorded slots differ.
C17_PendingSlotsDiffer ==
    flippedCount = 2 => flippedIndices[0] # flippedIndices[1]

\* the second tile has just been flipped by a left click on its slot, and a
\* click on the first pending slot would have been the other choice
C17_Witness ==
    /\ flippedCount = 2
    /\ flipTimer = 1
    /\ IsLeftClick(sdlEvent)
    /\ flippedIndices[1] \in SlotsAt(sdlEvent)
    /\ flippedIndices[0] \notin SlotsAt(sdlEvent)

\* C18: at every frame boundary in PLAY flippedCount is the number of FLIPPED
\* tiles, the FLIPPED tiles are those at flippedIndices[0 .. flippedCount-1],
\* every recorded index is a valid one, and flipTimer is 0 with fewer than two
\* tiles pending and between 1 and 40 with two.
C18_BookkeepingMatchesBoard ==
    (pc = "loop" /\ programState = "PLAY") =>
        /\ flippedCount \in 0 .. 2
        /\ flippedCount = Cardinality(FlippedTiles)
        /\ FlippedTiles = {flippedIndices[k] : k \in 0 .. (flippedCount - 1)}
        /\ \A k \in 0 .. 1 : flippedIndices[k] \in Idx
        /\ flippedCount < 2 => flipTimer = 0
        /\ flippedCount = 2 => flipTimer \in 1 .. flipDelay

\* a frame boundary in PLAY after a resolution, with one tile pending again
C18_Witness ==
    /\ pc = "loop"
    /\ programState = "PLAY"
    /\ flippedCount = 1
    /\ flipTimer = 0
    /\ SolvedTiles # {}
    /\ flippedIndices[1] \in SolvedTiles
\* C19: with the slots laid out at startup and the hit test of
\* mouseWithinRectBound, the point of a click lies in at most one slot, and the
\* click flips the tile of that slot and no other.
C19_PointInAtMostOneSlot ==
    IsLeftClick(sdlEvent) =>
        /\ Cardinality(SlotsAt(sdlEvent)) <= 1
        /\ pc = "loop" =>
               {i \in DOMAIN puzzlePiecesAll : puzzlePiecesAll[i].visState = "FLIPPED"}
                   = SlotsAt(sdlEvent)

\* the click fell on the right edge of slot 0, five pixels left of slot 1, on
\* the 10 x 10 board: 40 x 40 slots, 45 apart, from (75, 40)
C19_Witness ==
    /\ pc = "loop"
    /\ IsLeftClick(sdlEvent)
    /\ sdlEvent.x = 115
    /\ sdlEvent.y = 40
    /\ SlotsAt(sdlEvent) = {0}
    /\ puzzlePiecesAll[0].visState = "FLIPPED"
    /\ SizeOf(dstCoords) = 100
    /\ \A i \in DOMAIN dstCoords :
           dstCoords[i] = Rect(75 + 45 * (i % 10), 40 + 45 * (i \div 10), 40, 40)

====
